---- MODULE Spec2Model ----
(***************************************************************************)
(* Result resolution of the MMA prediction service.                        *)
(*                                                                         *)
(* The persisted database is the state: the predictions, scorecards (with  *)
(* their round scores) and fight_results (with their official scorecards)  *)
(* tables and each event's is_upcoming flag.  Every session.commit() of a  *)
(* request handler is one step; a commit may fail, which ends the request  *)
(* with whatever the earlier commits of that request persisted.  Handlers  *)
(* are coroutines without an await, so in one server process one request   *)
(* runs at a time; SpecRace and SpecDoublePost add a second process on the *)
(* same database, whose steps interleave with the first's.  SpecSessions   *)
(* is the in-memory store of admin sessions.                               *)
(***************************************************************************)
EXTENDS Integers, Sequences, FiniteSets

---------------------------------------------------------------------------
(* Bounds of the model *)

\* an official result carries at most MaxJudges official scorecards
MaxJudges == 2
\* utc_now() returns a value of 1..MaxTime, never decreasing
MaxTime == 1

\* the clock of the admin sessions: its last hour, and the hours of a tick
MaxClock == 49
TickHours == 12

Users == {"u1", "u2"}

---------------------------------------------------------------------------
(* Enumerations and column values *)

FightWinner == {"fighter1", "fighter2", "draw", "no_contest"}
PredictedWinner == {"fighter1", "fighter2"}
WinMethod == {"ko_tko", "submission", "decision", "dq"}

\* a nullable column holds NULL or Some(v)
NULL == << >>
Some(v) == << v >>

\* the fight ids requests name, and the events
FightIds == {1, 2}
Events == {1, 2}

\* the ids update_event_status is called with: 3 names no event
EventIds == Events \cup {3}

\* a fights row: its event, and the rounds it is scheduled for when set
Fight(e, r) == [event_id |-> e, rounds |-> r]

---------------------------------------------------------------------------
(* Request payloads, drawn from bounded sets *)

\* win methods the requests use (WinMethod in full)
MethodInputs == {"ko_tko", "decision"}

RoundScoreCreate(r, f1, f2) ==
    [round_number |-> r, fighter1_score |-> f1, fighter2_score |-> f2]

\* judges' cards: a full card, a card that scores round 1 only, and a full
\* card that agrees with the first on round 1 only
OfficialCards ==
    { <<RoundScoreCreate(1, 10, 9), RoundScoreCreate(2, 9, 10)>>,
      <<RoundScoreCreate(1, 9, 10)>>,
      <<RoundScoreCreate(1, 10, 9), RoundScoreCreate(2, 10, 9)>> }

RECURSIVE SeqsUpTo(_, _)
SeqsUpTo(S, n) ==
    IF n = 0 THEN {<< >>}
    ELSE LET shorter == SeqsUpTo(S, n - 1)
         IN  shorter \cup {Append(s, x) : s \in {t \in shorter : Len(t) = n - 1}, x \in S}

\* results without judges' cards, for every winner
WinnerResults ==
    [winner : FightWinner, method : MethodInputs, official_scorecards : {<< >>}]

\* decisions for fighter1 with up to MaxJudges cards
JudgedResults ==
    [winner : {"fighter1"}, method : {"decision"},
     official_scorecards : SeqsUpTo(OfficialCards, MaxJudges)]

FightResultCreate == WinnerResults \cup JudgedResults

\* the decisions with at most one judge's card
OneJudgeResults == {d \in JudgedResults : Len(d.official_scorecards) <= 1}

\* round_scores of a scorecard request: two that fit a two-round fight, one
\* that fits a three-round fight, and lists with a round missing, repeated
\* or out of range
RoundScoreLists ==
    { <<RoundScoreCreate(1, 10, 9), RoundScoreCreate(2, 9, 10)>>,
      <<RoundScoreCreate(1, 9, 10), RoundScoreCreate(2, 10, 9)>>,
      <<RoundScoreCreate(1, 10, 9)>>,
      <<RoundScoreCreate(1, 10, 9), RoundScoreCreate(1, 9, 10)>>,
      <<RoundScoreCreate(1, 10, 9), RoundScoreCreate(3, 9, 10)>>,
      <<RoundScoreCreate(1, 10, 9), RoundScoreCreate(2, 9, 10), RoundScoreCreate(3, 10, 9)>>,
      <<RoundScoreCreate(1, 10, 9), RoundScoreCreate(2, 9, 10), RoundScoreCreate(4, 10, 9)>> }

PredictionCreate ==
    [fight_id : FightIds, predicted_winner : PredictedWinner,
     win_method : MethodInputs, confidence : {NULL, Some(5)}]

\* the predictions the specifications with results draw from: a confidence
\* on the finishes, none on the decisions
Picks == {d \in PredictionCreate : (d.confidence = NULL) <=> (d.win_method = "decision")}

ScorecardCreate == [fight_id : FightIds, round_scores : RoundScoreLists]

\* submissions and results for two fights: a pick and a scorecard for each
\* fight, and a finish without cards or a decision with one judge's card
PicksOfTwo ==
    {d \in Picks : d.predicted_winner = "fighter1" /\ d.win_method = "ko_tko"}

ScorecardsOfTwo ==
    [fight_id : FightIds,
     round_scores : {<<RoundScoreCreate(1, 10, 9), RoundScoreCreate(2, 9, 10)>>}]

ResultsOfTwo ==
    {d \in WinnerResults : d.winner = "fighter1" /\ d.method = "ko_tko"}
        \cup {d \in OneJudgeResults : Len(d.official_scorecards) = 1
                                       /\ Len(d.official_scorecards[1]) = 1}

\* scorecards of a two-round fight that fighter1 wins, that fighter2 wins
\* and that are level
DecidedScorecards ==
    [fight_id : {1},
     round_scores : { <<RoundScoreCreate(1, 10, 9), RoundScoreCreate(2, 10, 9)>>,
                      <<RoundScoreCreate(1, 9, 10), RoundScoreCreate(2, 9, 10)>>,
                      <<RoundScoreCreate(1, 10, 9), RoundScoreCreate(2, 9, 10)>> }]

---------------------------------------------------------------------------
(* State *)

VARIABLES
    fights,         \* table fights, by fight id; no modelled request writes it
    predictions,    \* table predictions, in insertion order
    scorecards,     \* table scorecards, each row with its round_scores rows
    fight_results,  \* table fight_results, each row with its official cards
    is_upcoming,    \* events.is_upcoming, by event id
    request,        \* the admin request in progress and where it stands
    other_request,  \* the request of a second server process, between steps
    _active_sessions, \* admin_auth._active_sessions: token -> expiry, or NULL
    session,        \* the last call of the session store and its answer
    now             \* the clock utc_now() reads

vars == <<fights, predictions, scorecards, fight_results, is_upcoming, request,
          other_request, _active_sessions, session, now>>

Idle == [op |-> "none", fight_id |-> 0, result_data |-> NULL, pc |-> "idle",
         predictions_resolved |-> 0, scorecards_resolved |-> 0]

\* the session tokens secrets.token_urlsafe may return or a cookie may hold
Tokens == {"t1", "t2"}

\* no call of the session store has been made
NoCall == [op |-> "none", token |-> NULL, valid |-> FALSE, at |-> 0]

\* the fights are in place and every other table is empty
Start(fs) ==
    /\ fights = fs
    /\ predictions = << >>
    /\ scorecards = << >>
    /\ fight_results = << >>
    /\ is_upcoming = [e \in Events |-> TRUE]
    /\ request = Idle
    /\ other_request = Idle
    /\ _active_sessions = [token \in Tokens |-> NULL]
    /\ session = NoCall
    /\ now = 1

\* fight 1 belongs to event 1 and is scheduled for two rounds; fight id 2
\* names no row
Init == Start([f \in {1} |-> Fight(1, Some(2))])

\* fight 1 is scheduled for two rounds, or its rounds are unset
InitRounds == \E r \in {NULL, Some(2)} : Start([f \in {1} |-> Fight(1, r)])

\* fights 1 and 2 both belong to event 1
InitEvents == Start([f \in {1, 2} |-> Fight(1, Some(2))])

---------------------------------------------------------------------------
(* Queries *)

Rows(table) == {table[i] : i \in DOMAIN table}

Fights == DOMAIN fights

event_id(f) == fights[f].event_id

rounds(f) == fights[f].rounds

\* scorecards.py line 36: fight.rounds or 3
expected_rounds(f) ==
    IF rounds(f) = NULL \/ rounds(f) = Some(0) THEN 3 ELSE rounds(f)[1]

get_fight_by_id(f) == f \in Fights

\* a slip of db.py 469-477: the query finds no row
get_user_prediction_for_fight_none(u, f) == {}

get_user_prediction_for_fight(u, f) ==
    {i \in DOMAIN predictions :
        predictions[i].user_id = u /\ predictions[i].fight_id = f}

get_user_scorecard_for_fight(u, f) ==
    {i \in DOMAIN scorecards :
        scorecards[i].user_id = u /\ scorecards[i].fight_id = f}

\* fight.result: the rows of fight_results with this fight_id
fight_result(f) == {i \in DOMAIN fight_results : fight_results[i].fight_id = f}

HasResult(f) == fight_result(f) # {}

ResultOf(f) == fight_results[CHOOSE i \in fight_result(f) : TRUE]

PredictionsOf(f) == {p \in Rows(predictions) : p.fight_id = f}

ScorecardsOf(f) == {s \in Rows(scorecards) : s.fight_id = f}

---------------------------------------------------------------------------
(* Submissions: POST /predictions and POST /scorecards *)

\* a new predictions row; is_correct and resolved_at take the column default
Prediction(u, d) ==
    [user_id |-> u, fight_id |-> d.fight_id,
     predicted_winner |-> d.predicted_winner, win_method |-> d.win_method,
     confidence |-> d.confidence, is_correct |-> NULL, resolved_at |-> NULL]

\* a new round_scores row
RoundScore(rs) ==
    [round_number |-> rs.round_number, fighter1_score |-> rs.fighter1_score,
     fighter2_score |-> rs.fighter2_score, is_correct |-> NULL]

\* a new scorecards row with its round_scores rows
Scorecard(u, d) ==
    [user_id |-> u, fight_id |-> d.fight_id,
     round_scores |-> [i \in DOMAIN d.round_scores |-> RoundScore(d.round_scores[i])],
     correct_rounds |-> 0, total_rounds |-> 0, resolved_at |-> NULL]

\* sum() over a list of numbers
RECURSIVE sum(_)
sum(numbers) == IF numbers = << >> THEN 0 ELSE Head(numbers) + sum(Tail(numbers))

\* a slip of models.py 299: only the rounds marked correct are added up
total_fighter1_of_correct(sc) ==
    sum([k \in DOMAIN sc.round_scores |->
            IF sc.round_scores[k].is_correct = Some(TRUE)
            THEN sc.round_scores[k].fighter1_score ELSE 0])

\* Scorecard.total_fighter1, total_fighter2 and winner
total_fighter1(sc) ==
    sum([k \in DOMAIN sc.round_scores |-> sc.round_scores[k].fighter1_score])

total_fighter2(sc) ==
    sum([k \in DOMAIN sc.round_scores |-> sc.round_scores[k].fighter2_score])

winner(sc) ==
    IF total_fighter1(sc) > total_fighter2(sc) THEN "fighter1"
    ELSE IF total_fighter2(sc) > total_fighter1(sc) THEN "fighter2"
    ELSE "draw"

\* a slip of models.py 261-266: the table has no unique constraint
uq_user_fight_absent(table, u, f) == TRUE

\* UniqueConstraint("user_id", "fight_id") of either table
uq_user_fight(table, u, f) ==
    \A i \in DOMAIN table : ~(table[i].user_id = u /\ table[i].fight_id = f)

\* Database.create_prediction: its own existence check, then the flush
db_create_prediction(u, f) ==
    IF get_user_prediction_for_fight(u, f) # {} THEN "ValueError"
    ELSE IF ~uq_user_fight(predictions, u, f) THEN "IntegrityError"
    ELSE "flushed"

\* Database.create_scorecard: its own existence check, then the flush
db_create_scorecard(u, f) ==
    IF get_user_scorecard_for_fight(u, f) # {} THEN "ValueError"
    ELSE IF ~uq_user_fight(scorecards, u, f) THEN "IntegrityError"
    ELSE "flushed"

\* the status create_prediction answers with
create_prediction_status(u, d, commit_ok) ==
    IF ~get_fight_by_id(d.fight_id) THEN 404
    ELSE IF get_user_prediction_for_fight(u, d.fight_id) # {} THEN 409
    ELSE IF db_create_prediction(u, d.fight_id) = "ValueError" THEN 409
    ELSE IF db_create_prediction(u, d.fight_id) = "IntegrityError" THEN 500
    ELSE IF ~commit_ok THEN 500
    ELSE 201

create_prediction(u, d, commit_ok) ==
    /\ request = Idle
    /\ predictions' = IF create_prediction_status(u, d, commit_ok) = 201
                      THEN Append(predictions, Prediction(u, d))
                      ELSE predictions
    /\ UNCHANGED <<other_request, _active_sessions, session, fights,
                   scorecards, fight_results, is_upcoming, request, now>>

\* create_prediction taken step by step, as it runs when a second server
\* process serves requests on the same database: the handler's checks
\* (predictions.py 27-43), the check of Database.create_prediction (db.py
\* 454-456), the INSERT of its flush with the commit (db.py 466,
\* predictions.py 55), and the answer
Submitting(u, d) ==
    [op |-> "create_prediction", fight_id |-> d.fight_id, result_data |-> NULL,
     pc |-> "db_create_prediction", predictions_resolved |-> 0,
     scorecards_resolved |-> 0, user_id |-> u, prediction_data |-> d,
     status |-> 0, raised |-> "none"]

\* the request ends with this status, after this exception if any
Answer(status, raised) ==
    request' = [request EXCEPT !.pc = "return_prediction", !.status = status,
                               !.raised = raised]

create_prediction_checks(u, d) ==
    /\ request = Idle
    /\ IF get_fight_by_id(d.fight_id) /\ get_user_prediction_for_fight(u, d.fight_id) = {}
       THEN request' = Submitting(u, d)
       ELSE UNCHANGED request
    /\ UNCHANGED <<other_request, _active_sessions, session, fights, predictions,
                   scorecards, fight_results, is_upcoming, now>>

db_create_prediction_check ==
    /\ request.pc = "db_create_prediction"
    /\ IF get_user_prediction_for_fight(request.user_id, request.fight_id) # {}
       THEN Answer(409, "ValueError")
       ELSE request' = [request EXCEPT !.pc = "flush"]
    /\ UNCHANGED <<other_request, _active_sessions, session, fights, predictions,
                   scorecards, fight_results, is_upcoming, now>>

db_create_prediction_flush(commit_ok) ==
    /\ request.pc = "flush"
    /\ IF ~uq_user_fight(predictions, request.user_id, request.fight_id)
       THEN Answer(500, "IntegrityError") /\ UNCHANGED predictions
       ELSE IF ~commit_ok
       THEN Answer(500, "OperationalError") /\ UNCHANGED predictions
       ELSE /\ predictions' = Append(predictions,
                                     Prediction(request.user_id, request.prediction_data))
            /\ Answer(201, "none")
    /\ UNCHANGED <<other_request, _active_sessions, session, fights, scorecards,
                   fight_results, is_upcoming, now>>

create_prediction_return ==
    /\ request.pc = "return_prediction"
    /\ request' = Idle
    /\ UNCHANGED <<other_request, _active_sessions, session, fights, predictions,
                   scorecards, fight_results, is_upcoming, now>>

\* a slip of scorecards.py 44-50: the round numbers are only checked to
\* lie in range
round_numbers_ok_in_range(d) ==
    {d.round_scores[i].round_number : i \in DOMAIN d.round_scores}
        \subseteq 1 .. expected_rounds(d.fight_id)

\* the round numbers of the request are exactly 1..expected_rounds
round_numbers_ok(d) ==
    {d.round_scores[i].round_number : i \in DOMAIN d.round_scores}
        = 1 .. expected_rounds(d.fight_id)

create_scorecard_status(u, d, commit_ok) ==
    IF ~get_fight_by_id(d.fight_id) THEN 404
    ELSE IF Len(d.round_scores) # expected_rounds(d.fight_id) THEN 400
    ELSE IF ~round_numbers_ok(d) THEN 400
    ELSE IF get_user_scorecard_for_fight(u, d.fight_id) # {} THEN 409
    ELSE IF db_create_scorecard(u, d.fight_id) = "ValueError" THEN 409
    ELSE IF db_create_scorecard(u, d.fight_id) = "IntegrityError" THEN 500
    ELSE IF ~commit_ok THEN 500
    ELSE 201

create_scorecard(u, d, commit_ok) ==
    /\ request = Idle
    /\ scorecards' = IF create_scorecard_status(u, d, commit_ok) = 201
                     THEN Append(scorecards, Scorecard(u, d))
                     ELSE scorecards
    /\ UNCHANGED <<other_request, _active_sessions, session, fights,
                   predictions, fight_results, is_upcoming, request, now>>

---------------------------------------------------------------------------
(* The resolvers, api/services/result_resolution.py *)

\* a slip of lines 62-65: the method is not compared
prediction_is_correct_winner_only(prediction, fr) ==
    IF fr.winner \in {"fighter1", "fighter2"}
    THEN prediction.predicted_winner = fr.winner
    ELSE FALSE

\* a slip of lines 54-60: a draw or no contest credits a matching method
prediction_is_correct_method_on_draw(prediction, fr) ==
    IF fr.winner \in {"fighter1", "fighter2"}
    THEN prediction.predicted_winner = fr.winner /\ prediction.win_method = fr.method
    ELSE prediction.win_method = fr.method

\* lines 50-65: the winner the result maps to, then winner and method
prediction_is_correct(prediction, fr) ==
    LET correct_winner ==
            IF fr.winner = "fighter1" THEN Some("fighter1")
            ELSE IF fr.winner = "fighter2" THEN Some("fighter2")
            ELSE NULL
    IN  IF correct_winner = NULL THEN FALSE
        ELSE /\ Some(prediction.predicted_winner) = correct_winner
             /\ prediction.win_method = fr.method

\* a slip of lines 42-44: the predictions of every fight are resolved
resolve_predictions_every_fight(table, f, fr, t) ==
    [i \in DOMAIN table |->
        [table[i] EXCEPT !.is_correct = Some(prediction_is_correct(table[i], fr)),
                         !.resolved_at = Some(t)]]

\* a slip of line 69: resolved_at is set on the correct predictions only
resolve_predictions_stamping_correct(table, f, fr, t) ==
    [i \in DOMAIN table |->
        IF table[i].fight_id = f
        THEN [table[i] EXCEPT !.is_correct = Some(prediction_is_correct(table[i], fr)),
                              !.resolved_at = IF prediction_is_correct(table[i], fr)
                                              THEN Some(t) ELSE @]
        ELSE table[i]]

\* the predictions table after resolve_predictions(session, f, fr) at time t
resolve_predictions(table, f, fr, t) ==
    [i \in DOMAIN table |->
        IF table[i].fight_id = f
        THEN [table[i] EXCEPT !.is_correct = Some(prediction_is_correct(table[i], fr)),
                              !.resolved_at = Some(t)]
        ELSE table[i]]

\* every round score of the official cards, card after card
RECURSIVE official_round_scores(_)
official_round_scores(cards) ==
    IF cards = << >> THEN << >>
    ELSE Head(cards) \o official_round_scores(Tail(cards))

\* a slip of lines 107-111: a round's entry is overwritten by each card,
\* not appended to
score_pairs_last(rows) ==
    IF rows = << >> THEN << >>
    ELSE <<  <<rows[Len(rows)].fighter1_score, rows[Len(rows)].fighter2_score>>  >>

\* lines 109-111: the (fighter1, fighter2) pairs of the rows, in their order
RECURSIVE score_pairs(_)
score_pairs(rows) ==
    IF rows = << >> THEN << >>
    ELSE <<  <<Head(rows).fighter1_score, Head(rows).fighter2_score>>  >>
         \o score_pairs(Tail(rows))

\* lines 103-111: round number -> the list of (fighter1, fighter2) scores
official_scores_by_round(cards) ==
    LET all == official_round_scores(cards)
        IsRound(r) == LET Test(rs) == rs.round_number = r IN SelectSeq(all, Test)
    IN  [r \in {all[i].round_number : i \in DOMAIN all} |-> score_pairs(IsRound(r))]

\* a slip of lines 126-129: the pair is looked up in every round's list
round_is_correct_any_round(rs, by_round) ==
    \E r \in DOMAIN by_round : \E k \in DOMAIN by_round[r] :
        by_round[r][k] = <<rs.fighter1_score, rs.fighter2_score>>

\* lines 122-129: the user's pair is in the round's list
round_is_correct(rs, by_round) ==
    IF rs.round_number \in DOMAIN by_round
    THEN \E k \in DOMAIN by_round[rs.round_number] :
            by_round[rs.round_number][k] = <<rs.fighter1_score, rs.fighter2_score>>
    ELSE FALSE

\* a slip of lines 133-134: the count advances on every round
count_correct_every_round(round_scores, correct_rounds) ==
    correct_rounds + Len(round_scores)

\* lines 116, 133-134: the count the loop accumulates
RECURSIVE count_correct(_, _)
count_correct(round_scores, correct_rounds) ==
    IF round_scores = << >> THEN correct_rounds
    ELSE count_correct(Tail(round_scores),
                       IF Head(round_scores).is_correct = Some(TRUE)
                       THEN correct_rounds + 1 ELSE correct_rounds)

\* a slip of line 116: the count starts from the stored correct_rounds
resolve_scorecard_accumulating(sc, by_round, t) ==
    LET resolved == [k \in DOMAIN sc.round_scores |->
                        [sc.round_scores[k] EXCEPT
                            !.is_correct = Some(round_is_correct(sc.round_scores[k], by_round))]]
    IN  [sc EXCEPT !.round_scores = resolved,
                   !.correct_rounds = count_correct(resolved, sc.correct_rounds),
                   !.total_rounds = Len(sc.round_scores),
                   !.resolved_at = Some(t)]

\* lines 115-140: one user scorecard resolved
resolve_scorecard(sc, by_round, t) ==
    LET resolved == [k \in DOMAIN sc.round_scores |->
                        [sc.round_scores[k] EXCEPT
                            !.is_correct = Some(round_is_correct(sc.round_scores[k], by_round))]]
    IN  [sc EXCEPT !.round_scores = resolved,
                   !.correct_rounds = count_correct(resolved, 0),
                   !.total_rounds = Len(sc.round_scores),
                   !.resolved_at = Some(t)]

\* a slip of lines 97-99: with no official scorecard the fight's
\* scorecards are zeroed
resolve_scorecards_zeroing(table, f, cards, t) ==
    [i \in DOMAIN table |->
        IF table[i].fight_id # f THEN table[i]
        ELSE IF cards = << >>
             THEN [table[i] EXCEPT !.correct_rounds = 0, !.total_rounds = 0,
                                   !.resolved_at = NULL]
             ELSE resolve_scorecard(table[i], official_scores_by_round(cards), t)]

\* the scorecards table after resolve_scorecards(session, f, cards) at time t
resolve_scorecards(table, f, cards, t) ==
    IF cards = << >> THEN table
    ELSE [i \in DOMAIN table |->
            IF table[i].fight_id = f
            THEN resolve_scorecard(table[i], official_scores_by_round(cards), t)
            ELSE table[i]]

\* a slip of lines 97-99: the early return reports the scorecards it found
scorecards_resolved_found(table, f, cards) ==
    Cardinality({i \in DOMAIN table : table[i].fight_id = f})

\* the count resolve_scorecards returns
scorecards_resolved(table, f, cards) ==
    IF cards = << >> THEN 0
    ELSE Cardinality({i \in DOMAIN table : table[i].fight_id = f})

\* the count resolve_predictions returns
predictions_resolved(table, f) ==
    Cardinality({i \in DOMAIN table : table[i].fight_id = f})

---------------------------------------------------------------------------
(* Statistics: db.py get_fight_prediction_stats, get_fight_scorecard_stats *)

\* a slip of db.py 481-485 and 556-560: only the resolved rows are read
get_rows_for_fight_resolved(table, f) ==
    LET rows == SelectSeq(table, LAMBDA row : row.fight_id = f /\ row.resolved_at # NULL)
    IN  [i \in 1 .. Len(rows) |-> rows[Len(rows) + 1 - i]]

\* db.py 479-486 and 554-561: the rows of a fight, latest first
get_rows_for_fight(table, f) ==
    LET rows == SelectSeq(table, LAMBDA row : row.fight_id = f)
    IN  [i \in 1 .. Len(rows) |-> rows[Len(rows) + 1 - i]]

\* round(num / den, ndigits), in units of 10^-ndigits, ties to even
round(num, den, ndigits) ==
    LET scaled == num * 10 ^ ndigits
        q == scaled \div den
        r == scaled % den
    IN  IF 2 * r > den \/ (2 * r = den /\ q % 2 = 1) THEN q + 1 ELSE q

\* db.py 573-611; the percentages in tenths of a percent
get_fight_prediction_stats(table, f) ==
    LET preds == get_rows_for_fight(table, f)
        total == Len(preds)
        fighter1_picks == Len(SelectSeq(preds, LAMBDA p : p.predicted_winner = "fighter1"))
        fighter2_picks == total - fighter1_picks
        picks(method, who) ==
            Len(SelectSeq(preds, LAMBDA p : p.win_method = method /\ p.predicted_winner = who))
    IN  IF total = 0
        THEN [total_predictions |-> 0, fighter1_picks |-> 0, fighter2_picks |-> 0,
              fighter1_percentage |-> 0, fighter2_percentage |-> 0, methods |-> << >>]
        ELSE [total_predictions |-> total,
              fighter1_picks |-> fighter1_picks,
              fighter2_picks |-> fighter2_picks,
              fighter1_percentage |-> round(fighter1_picks * 100, total, 1),
              fighter2_percentage |-> round(fighter2_picks * 100, total, 1),
              methods |-> [method \in WinMethod |->
                              [fighter1 |-> picks(method, "fighter1"),
                               fighter2 |-> picks(method, "fighter2")]]]

\* db.py 636-642: the scores given to a round, one per scorecard that has it
scores_of_round(cards, round_num) ==
    LET having == SelectSeq(cards, LAMBDA sc :
                      \E k \in DOMAIN sc.round_scores :
                          sc.round_scores[k].round_number = round_num)
        first(sc) == sc.round_scores[
                        CHOOSE k \in DOMAIN sc.round_scores :
                            /\ sc.round_scores[k].round_number = round_num
                            /\ \A j \in 1 .. k - 1 :
                                  sc.round_scores[j].round_number # round_num]
    IN  [i \in 1 .. Len(having) |-> first(having[i])]

\* db.py 644-652: the entry of a round; averages in hundredths
round_stats(round_scores) ==
    [average_fighter1 |->
         round(sum([i \in DOMAIN round_scores |-> round_scores[i].fighter1_score]),
               Len(round_scores), 2),
     average_fighter2 |->
         round(sum([i \in DOMAIN round_scores |-> round_scores[i].fighter2_score]),
               Len(round_scores), 2),
     fighter1_round_wins |->
         Len(SelectSeq(round_scores, LAMBDA rs : rs.fighter1_score > rs.fighter2_score)),
     fighter2_round_wins |->
         Len(SelectSeq(round_scores, LAMBDA rs : rs.fighter2_score > rs.fighter1_score))]

\* db.py 613-678; average totals in tenths, percentages in tenths of a percent
get_fight_scorecard_stats(table, f) ==
    LET cards == get_rows_for_fight(table, f)
        total == Len(cards)
        num_rounds == expected_rounds(f)
        scored == {r \in 1 .. num_rounds : scores_of_round(cards, r) # << >>}
        wins(who) == Len(SelectSeq(cards, LAMBDA sc : winner(sc) = who))
    IN  IF total = 0
        THEN [total_scorecards |-> 0, rounds |-> << >>,
              average_total_fighter1 |-> 0, average_total_fighter2 |-> 0,
              fighter1_wins |-> 0, fighter2_wins |-> 0, draws |-> 0,
              fighter1_win_percentage |-> 0, fighter2_win_percentage |-> 0]
        ELSE [total_scorecards |-> total,
              rounds |-> [r \in scored |-> round_stats(scores_of_round(cards, r))],
              average_total_fighter1 |->
                  round(sum([i \in DOMAIN cards |-> total_fighter1(cards[i])]), total, 1),
              average_total_fighter2 |->
                  round(sum([i \in DOMAIN cards |-> total_fighter2(cards[i])]), total, 1),
              fighter1_wins |-> wins("fighter1"),
              fighter2_wins |-> wins("fighter2"),
              draws |-> wins("draw"),
              fighter1_win_percentage |-> round(wins("fighter1") * 100, total, 1),
              fighter2_win_percentage |-> round(wins("fighter2") * 100, total, 1)]

---------------------------------------------------------------------------
(* Official results: POST, PUT and DELETE /admin/fights/{fight_id}/result *)

\* a fight_results row with its official_scorecards (and their rounds)
FightResult(f, d) ==
    [fight_id |-> f, winner |-> d.winner, method |-> d.method,
     is_resolved |-> FALSE, official_scorecards |-> d.official_scorecards]

\* fight_id INTEGER NOT NULL UNIQUE
uq_fight_result(f) == \A i \in DOMAIN fight_results : fight_results[i].fight_id # f

Resolving(op, f, d) ==
    [op |-> op, fight_id |-> f, result_data |-> d, pc |-> "resolve_predictions",
     predictions_resolved |-> 0, scorecards_resolved |-> 0]

\* a slip of admin.py 503-508: a fight with a result is not turned away
create_fight_result_status_unchecked(f, commit_ok) ==
    IF ~get_fight_by_id(f) THEN 404
    ELSE IF ~commit_ok THEN 500
    ELSE 0

\* admin.py 497-541: up to the commit that stores the result
create_fight_result_status(f, commit_ok) ==
    IF ~get_fight_by_id(f) THEN 404
    ELSE IF HasResult(f) THEN 400
    ELSE IF ~uq_fight_result(f) THEN 500
    ELSE IF ~commit_ok THEN 500
    ELSE 0

create_fight_result(f, d, commit_ok) ==
    /\ request = Idle
    /\ IF create_fight_result_status(f, commit_ok) = 0
       THEN /\ fight_results' = Append(fight_results, FightResult(f, d))
            /\ request' = Resolving("create_result", f, d)
       ELSE UNCHANGED <<fight_results, request>>
    /\ UNCHANGED <<other_request, _active_sessions, session, fights,
                   predictions, scorecards, is_upcoming, now>>

\* a slip of admin.py 578-582: a fight without a result is not turned away
update_fight_result_status_unchecked(f, commit_ok) ==
    IF ~get_fight_by_id(f) THEN 404
    ELSE IF ~commit_ok THEN 500
    ELSE 0

\* admin.py 571-617: up to the commit that stores the new result
update_fight_result_status(f, commit_ok) ==
    IF ~get_fight_by_id(f) THEN 404
    ELSE IF ~HasResult(f) THEN 404
    ELSE IF ~commit_ok THEN 500
    ELSE 0

\* a slip of admin.py 593-596: the official scorecards stored before stay
updated_result_adding_cards(db_result, d) ==
    [db_result EXCEPT !.winner = d.winner, !.method = d.method,
                      !.is_resolved = FALSE,
                      !.official_scorecards = @ \o d.official_scorecards]

\* a slip of admin.py 586: the method keeps its value
updated_result_keeping_method(db_result, d) ==
    [db_result EXCEPT !.winner = d.winner, !.is_resolved = FALSE,
                      !.official_scorecards = d.official_scorecards]

\* a slip of admin.py 589: is_resolved keeps its value
updated_result_keeping_is_resolved(db_result, d) ==
    [db_result EXCEPT !.winner = d.winner, !.method = d.method,
                      !.official_scorecards = d.official_scorecards]

\* admin.py 584-615: the row overwritten, its official scorecards replaced
updated_result(db_result, d) ==
    [db_result EXCEPT !.winner = d.winner, !.method = d.method,
                      !.is_resolved = FALSE,
                      !.official_scorecards = d.official_scorecards]

update_fight_result(f, d, commit_ok) ==
    /\ request = Idle
    /\ IF update_fight_result_status(f, commit_ok) = 0
       THEN /\ fight_results' =
                   [i \in DOMAIN fight_results |->
                       IF i \in fight_result(f)
                       THEN updated_result(fight_results[i], d)
                       ELSE fight_results[i]]
            /\ request' = Resolving("update_result", f, d)
       ELSE UNCHANGED <<fight_results, request>>
    /\ UNCHANGED <<other_request, _active_sessions, session, fights,
                   predictions, scorecards, is_upcoming, now>>

\* a commit of the request in progress failed: the exception ends the request
Abort == request' = Idle

\* resolve_fight_result, line 160: resolve_predictions and its commit
ResolvePredictions(t, commit_ok) ==
    /\ request.pc = "resolve_predictions"
    /\ now' = t
    /\ LET f == request.fight_id
       IN  IF commit_ok
           THEN /\ predictions' = resolve_predictions(predictions, f, ResultOf(f), t)
                /\ request' = [request EXCEPT
                                  !.pc = "resolve_scorecards",
                                  !.predictions_resolved = predictions_resolved(predictions, f)]
           ELSE Abort /\ UNCHANGED predictions
    /\ UNCHANGED <<other_request, _active_sessions, session,
                   fights, scorecards, fight_results, is_upcoming>>

\* resolve_fight_result, line 163: resolve_scorecards; with no official
\* scorecard it returns before its commit
ResolveScorecards(t, commit_ok) ==
    /\ request.pc = "resolve_scorecards"
    /\ LET f == request.fight_id
           cards == ResultOf(f).official_scorecards
       IN  IF cards # << >> /\ ~commit_ok
           THEN Abort /\ now' = t /\ UNCHANGED scorecards
           ELSE /\ scorecards' = resolve_scorecards(scorecards, f, cards, t)
                /\ now' = IF cards = << >> THEN now ELSE t
                /\ request' = [request EXCEPT
                                  !.pc = "mark_resolved",
                                  !.scorecards_resolved =
                                      scorecards_resolved(scorecards, f, cards)]
    /\ UNCHANGED <<other_request, _active_sessions, session,
                   fights, predictions, fight_results, is_upcoming>>

\* resolve_fight_result, lines 166-167
MarkResolved(commit_ok) ==
    /\ request.pc = "mark_resolved"
    /\ IF commit_ok
       THEN /\ fight_results' =
                   [i \in DOMAIN fight_results |->
                       IF i \in fight_result(request.fight_id)
                       THEN [fight_results[i] EXCEPT !.is_resolved = TRUE]
                       ELSE fight_results[i]]
            /\ request' = [request EXCEPT !.pc = "update_event_status"]
       ELSE Abort /\ UNCHANGED fight_results
    /\ UNCHANGED <<other_request, _active_sessions, session, fights,
                   predictions, scorecards, is_upcoming, now>>

\* a slip of admin.py 125-131: one fight with a result is enough
all_have_results_some(e) == \E f \in Fights : event_id(f) = e /\ HasResult(f)

\* admin.py 114-136, called at 547-548 and 623-624; the handler then answers
all_have_results(e) == \A f \in Fights : event_id(f) = e => HasResult(f)

\* a slip of admin.py 127-128: an event without fights is not skipped
update_event_status_unguarded(e) ==
    IF e \notin Events THEN is_upcoming
    ELSE IF all_have_results(e) /\ is_upcoming[e]
    THEN [is_upcoming EXCEPT ![e] = FALSE]
    ELSE is_upcoming

\* admin.py 114-136: events.is_upcoming as update_event_status(event_id)
\* leaves it, when its commit succeeds
update_event_status(e) ==
    IF e \notin Events THEN is_upcoming
    ELSE IF {f \in Fights : event_id(f) = e} = {} THEN is_upcoming
    ELSE IF all_have_results(e) /\ is_upcoming[e]
    THEN [is_upcoming EXCEPT ![e] = FALSE]
    ELSE is_upcoming

\* admin.py 547-548 and 623-624: the call on the event of the fight
UpdateEventStatus(commit_ok) ==
    /\ request.pc = "update_event_status"
    /\ LET e == event_id(request.fight_id)
       IN  IF update_event_status(e) # is_upcoming
           THEN IF commit_ok
                THEN /\ is_upcoming' = update_event_status(e)
                     /\ request' = [request EXCEPT !.pc = "return_result"]
                ELSE Abort /\ UNCHANGED is_upcoming
           ELSE /\ request' = [request EXCEPT !.pc = "return_result"]
                /\ UNCHANGED is_upcoming
    /\ UNCHANGED <<other_request, _active_sessions, session, fights, predictions,
                   scorecards, fight_results, now>>

\* update_event_status called on any event id, between two requests
CallUpdateEventStatus(e, commit_ok) ==
    /\ request = Idle
    /\ is_upcoming' = IF commit_ok THEN update_event_status(e) ELSE is_upcoming
    /\ UNCHANGED <<other_request, _active_sessions, session, fights, predictions,
                   scorecards, fight_results, request, now>>

\* admin.py 550-557 and 626-633: the stored result is read and returned
ReturnResult ==
    /\ request.pc = "return_result"
    /\ request' = Idle
    /\ UNCHANGED <<other_request, _active_sessions, session, fights,
                   predictions, scorecards, fight_results, is_upcoming, now>>

\* two server processes share the database, each with a session of its own
\* (db.py 43-45); between two commits of one the other may take its steps.
\* The step that comes next belongs to `request`: here the processes take turns
Switch ==
    /\ request' = other_request
    /\ other_request' = request
    /\ UNCHANGED <<_active_sessions, session, fights, predictions, scorecards,
                   fight_results, is_upcoming, now>>

\* a slip of lines 658-661: the confidence is cleared with the resolution
unresolve_prediction_clearing_confidence(p) ==
    [p EXCEPT !.is_correct = NULL, !.resolved_at = NULL, !.confidence = NULL]

\* admin.py 656-667: a row set back to unresolved
unresolve_prediction(p) == [p EXCEPT !.is_correct = NULL, !.resolved_at = NULL]

\* a slip of lines 663-667: the rounds keep their is_correct
unresolve_scorecard_keeping_rounds(sc) ==
    [sc EXCEPT !.correct_rounds = 0, !.total_rounds = 0, !.resolved_at = NULL]

unresolve_scorecard(sc) ==
    [sc EXCEPT !.correct_rounds = 0, !.total_rounds = 0, !.resolved_at = NULL,
               !.round_scores = [k \in DOMAIN sc.round_scores |->
                                    [sc.round_scores[k] EXCEPT !.is_correct = NULL]]]

delete_fight_result_status(f, commit_ok) ==
    IF ~get_fight_by_id(f) THEN 404
    ELSE IF ~HasResult(f) THEN 404
    ELSE IF ~commit_ok THEN 500
    ELSE 200

\* a slip of admin.py 670: the result is not deleted
delete_rows_none(table, gone, i) == table

\* a table without the rows at the indices in gone
RECURSIVE delete_rows(_, _, _)
delete_rows(table, gone, i) ==
    IF i > Len(table) THEN << >>
    ELSE (IF i \in gone THEN << >> ELSE <<table[i]>>) \o delete_rows(table, gone, i + 1)

delete_fight_result(f, commit_ok) ==
    /\ request = Idle
    /\ IF delete_fight_result_status(f, commit_ok) = 200
       THEN /\ predictions' =
                   [i \in DOMAIN predictions |->
                       IF predictions[i].fight_id = f
                       THEN unresolve_prediction(predictions[i])
                       ELSE predictions[i]]
            /\ scorecards' =
                   [i \in DOMAIN scorecards |->
                       IF scorecards[i].fight_id = f
                       THEN unresolve_scorecard(scorecards[i])
                       ELSE scorecards[i]]
            /\ fight_results' = delete_rows(fight_results, fight_result(f), 1)
       ELSE UNCHANGED <<predictions, scorecards, fight_results>>
    /\ UNCHANGED <<other_request, _active_sessions, session, fights, is_upcoming, request, now>>

---------------------------------------------------------------------------
(* Admin sessions: admin_auth.py; the clock counts hours *)

SESSION_EXPIRY_HOURS == 24

\* admin_auth.py 123-128
_cleanup_expired_sessions(sessions) ==
    [token \in Tokens |->
        IF sessions[token] # NULL /\ now > sessions[token][1] THEN NULL
        ELSE sessions[token]]

\* admin_auth.py 66-83; admin_login has checked the credentials
create_admin_session(token) ==
    /\ _active_sessions' =
           [_cleanup_expired_sessions(_active_sessions) EXCEPT
               ![token] = Some(now + SESSION_EXPIRY_HOURS)]
    /\ session' = [op |-> "create_admin_session", token |-> Some(token),
                   valid |-> TRUE, at |-> now]
    /\ UNCHANGED <<fights, predictions, scorecards, fight_results, is_upcoming,
                   request, other_request, now>>

\* a slip of lines 103-107: the expiry is not looked at
session_is_valid_unexpiring(token) ==
    /\ token # NULL
    /\ _active_sessions[token[1]] # NULL

\* the answer of verify_admin_session; token is NULL without a cookie
session_is_valid(token) ==
    /\ token # NULL
    /\ _active_sessions[token[1]] # NULL
    /\ ~(now > _active_sessions[token[1]][1])

\* admin_auth.py 86-109, called by admin_me and require_admin
verify_admin_session(token) ==
    /\ _active_sessions' =
           IF /\ token # NULL
              /\ _active_sessions[token[1]] # NULL
              /\ ~session_is_valid(token)
           THEN [_active_sessions EXCEPT ![token[1]] = NULL]
           ELSE _active_sessions
    /\ session' = [op |-> "verify_admin_session", token |-> token,
                   valid |-> session_is_valid(token), at |-> now]
    /\ UNCHANGED <<fights, predictions, scorecards, fight_results, is_upcoming,
                   request, other_request, now>>

\* admin_auth.py 112-120, called by admin_logout
invalidate_admin_session(token) ==
    /\ _active_sessions' =
           IF token # NULL /\ _active_sessions[token[1]] # NULL
           THEN [_active_sessions EXCEPT ![token[1]] = NULL]
           ELSE _active_sessions
    /\ session' = [op |-> "invalidate_admin_session", token |-> token,
                   valid |-> FALSE, at |-> now]
    /\ UNCHANGED <<fights, predictions, scorecards, fight_results, is_upcoming,
                   request, other_request, now>>

\* time passes
Tick ==
    /\ now + TickHours <= MaxClock
    /\ now' = now + TickHours
    /\ UNCHANGED <<fights, predictions, scorecards, fight_results, is_upcoming,
                   request, other_request, _active_sessions, session>>

---------------------------------------------------------------------------
(* The specification *)

\* the steps of a result request after its first commit
Resolve ==
    \/ \E t \in now .. MaxTime, ok \in BOOLEAN : ResolvePredictions(t, ok)
    \/ \E t \in now .. MaxTime, ok \in BOOLEAN : ResolveScorecards(t, ok)
    \/ \E ok \in BOOLEAN : MarkResolved(ok)
    \/ \E ok \in BOOLEAN : UpdateEventStatus(ok)
    \/ ReturnResult

\* the result requests with a payload of D
Results(D) ==
    \/ \E f \in FightIds, d \in D, ok \in BOOLEAN : create_fight_result(f, d, ok)
    \/ \E f \in FightIds, d \in D, ok \in BOOLEAN : update_fight_result(f, d, ok)
    \/ \E f \in FightIds, ok \in BOOLEAN : delete_fight_result(f, ok)

\* one user submits a prediction and a scorecard; results of every winner
\* and method, with one judge's card or none
Next ==
    \/ \E d \in Picks, ok \in BOOLEAN : create_prediction("u1", d, ok)
    \/ \E d \in ScorecardCreate, ok \in BOOLEAN : create_scorecard("u1", d, ok)
    \/ Results(WinnerResults \cup OneJudgeResults)
    \/ Resolve

Spec == Init /\ [][Next]_vars

\* both users submit predictions and scorecards; no result is entered
NextSubmissions ==
    \/ \E u \in Users, d \in PredictionCreate, ok \in BOOLEAN :
          create_prediction(u, d, ok)
    \/ \E u \in Users, d \in ScorecardCreate, ok \in BOOLEAN :
          create_scorecard(u, d, ok)

SpecSubmissions == Init /\ [][NextSubmissions]_vars

\* both users submit predictions; results of every winner, without cards
NextPredictions ==
    \/ \E u \in Users, d \in Picks, ok \in BOOLEAN : create_prediction(u, d, ok)
    \/ Results(WinnerResults)
    \/ Resolve

SpecPredictions == Init /\ [][NextPredictions]_vars

\* both users submit scorecards; results with judges' cards
NextScorecards ==
    \/ \E u \in Users, d \in ScorecardCreate, ok \in BOOLEAN :
          create_scorecard(u, d, ok)
    \/ Results(JudgedResults)
    \/ Resolve

SpecScorecards == Init /\ [][NextScorecards]_vars

\* the submissions of both users on a fight with its rounds set or unset
SpecRounds == InitRounds /\ [][NextSubmissions]_vars

\* results are entered for the two fights of an event
NextEvents ==
    \/ Results(WinnerResults)
    \/ Resolve

SpecEvents == InitEvents /\ [][NextEvents]_vars

\* one user submits a pick and a scorecard on each of two fights, and
\* results are entered for both
NextTwoFights ==
    \/ \E d \in PicksOfTwo, ok \in BOOLEAN : create_prediction("u1", d, ok)
    \/ \E d \in ScorecardsOfTwo, ok \in BOOLEAN : create_scorecard("u1", d, ok)
    \/ Results(ResultsOfTwo)
    \/ Resolve

SpecTwoFights == InitEvents /\ [][NextTwoFights]_vars

\* both users submit scorecards with a winner or level; results with one
\* judge's card or none
NextTotals ==
    \/ \E u \in Users, d \in DecidedScorecards, ok \in BOOLEAN :
          create_scorecard(u, d, ok)
    \/ Results(OneJudgeResults)
    \/ Resolve

SpecTotals == Init /\ [][NextTotals]_vars

\* two server processes: one user submits a pick and a scorecard while no
\* result request is in progress, and results are entered and updated by
\* requests whose commits interleave
NextRace ==
    \/ \E d \in PicksOfTwo, ok \in BOOLEAN :
          other_request = Idle /\ create_prediction("u1", d, ok)
    \/ \E d \in ScorecardsOfTwo, ok \in BOOLEAN :
          other_request = Idle /\ create_scorecard("u1", d, ok)
    \/ \E f \in FightIds, d \in ResultsOfTwo, ok \in BOOLEAN :
          create_fight_result(f, d, ok)
    \/ \E f \in FightIds, d \in ResultsOfTwo, ok \in BOOLEAN :
          update_fight_result(f, d, ok)
    \/ Resolve
    \/ Switch

SpecRace == Init /\ [][NextRace]_vars

\* two server processes: both users submit picks, by requests whose steps
\* interleave
NextDoublePost ==
    \/ \E u \in Users, d \in Picks : create_prediction_checks(u, d)
    \/ db_create_prediction_check
    \/ \E ok \in BOOLEAN : db_create_prediction_flush(ok)
    \/ create_prediction_return
    \/ Switch

SpecDoublePost == Init /\ [][NextDoublePost]_vars

\* results are entered for the two fights of event 1, and
\* update_event_status is called on every event id
NextEventStatus ==
    \/ Results(WinnerResults)
    \/ Resolve
    \/ \E e \in EventIds, ok \in BOOLEAN : CallUpdateEventStatus(e, ok)

SpecEventStatus == InitEvents /\ [][NextEventStatus]_vars

\* admins log in, check their session and log out, with a cookie that
\* holds any token or none, while time passes
NextSessions ==
    \/ \E token \in Tokens : create_admin_session(token)
    \/ \E token \in {NULL} \cup {Some(x) : x \in Tokens} : verify_admin_session(token)
    \/ \E token \in {NULL} \cup {Some(x) : x \in Tokens} : invalidate_admin_session(token)
    \/ Tick

SpecSessions == Init /\ [][NextSessions]_vars

---------------------------------------------------------------------------
(* Properties *)

\* the request in progress has returned from resolve_predictions
PredictionsResolved ==
    request.pc \in {"resolve_scorecards", "mark_resolved", "update_event_status",
                    "return_result"}

\* the request in progress has returned from resolve_scorecards
ScorecardsResolved ==
    request.pc \in {"mark_resolved", "update_event_status", "return_result"}

\* C1: once resolve_predictions has run against a result won by fighter1 or
\* fighter2, each prediction of the fight is correct exactly when both its
\* predicted_winner and its win_method are the result's; the right winner
\* with another method is incorrect.
C1_WinnerAndMethod ==
    PredictionsResolved =>
        LET fr == ResultOf(request.fight_id)
        IN  fr.winner \in {"fighter1", "fighter2"} =>
                \A p \in PredictionsOf(request.fight_id) :
                    p.is_correct = Some(/\ p.predicted_winner = fr.winner
                                        /\ p.win_method = fr.method)

\* a prediction with the right winner and the wrong method, marked incorrect,
\* beside one that is right on both, marked correct
C1_Witness ==
    /\ request.pc = "resolve_scorecards"
    /\ \E p, q \in PredictionsOf(request.fight_id) :
          LET fr == ResultOf(request.fight_id)
          IN  /\ p.predicted_winner = fr.winner /\ p.win_method # fr.method
              /\ p.is_correct = Some(FALSE)
              /\ q.predicted_winner = fr.winner /\ q.win_method = fr.method
              /\ q.is_correct = Some(TRUE)

\* C2: once resolve_predictions has run against a draw or a no contest,
\* every prediction of the fight is incorrect, whatever it predicted.
C2_DrawAllIncorrect ==
    PredictionsResolved =>
        LET fr == ResultOf(request.fight_id)
        IN  fr.winner \in {"draw", "no_contest"} =>
                \A p \in PredictionsOf(request.fight_id) : p.is_correct = Some(FALSE)

\* a prediction whose method is the method of a no contest, marked incorrect
C2_Witness ==
    /\ request.pc = "resolve_scorecards"
    /\ ResultOf(request.fight_id).winner = "no_contest"
    /\ \E p \in PredictionsOf(request.fight_id) :
          /\ p.win_method = ResultOf(request.fight_id).method
          /\ p.is_correct = Some(FALSE)

\* some judge's card scores round r as the pair (f1, f2)
JudgeScored(cards, r, f1, f2) ==
    \E j \in DOMAIN cards : \E m \in DOMAIN cards[j] :
        /\ cards[j][m].round_number = r
        /\ cards[j][m].fighter1_score = f1
        /\ cards[j][m].fighter2_score = f2

\* C3: once resolve_scorecards has run with at least one official card, a
\* user's round is correct exactly when some judge gave the same ordered pair
\* for the same round number.
C3_AnyJudge ==
    ScorecardsResolved =>
        LET cards == ResultOf(request.fight_id).official_scorecards
        IN  cards # << >> =>
                \A sc \in ScorecardsOf(request.fight_id) :
                    \A k \in DOMAIN sc.round_scores :
                        LET rs == sc.round_scores[k]
                        IN  rs.is_correct =
                                Some(JudgeScored(cards, rs.round_number,
                                                 rs.fighter1_score, rs.fighter2_score))

\* a scorecard whose round 1 matches the second of two judges only, the
\* first having the swapped pair, and whose round 2 matches no judge
C3_Witness ==
    /\ request.pc = "mark_resolved"
    /\ LET cards == ResultOf(request.fight_id).official_scorecards
       IN  /\ Len(cards) = 2
           /\ \E sc \in ScorecardsOf(request.fight_id) :
                 /\ sc.round_scores[1].is_correct = Some(TRUE)
                 /\ sc.round_scores[2].is_correct = Some(FALSE)
                 /\ ~JudgeScored(<<cards[1]>>, 1, sc.round_scores[1].fighter1_score,
                                 sc.round_scores[1].fighter2_score)
                 /\ JudgeScored(<<cards[1]>>, 1, sc.round_scores[1].fighter2_score,
                                sc.round_scores[1].fighter1_score)
                 /\ \A f1, f2 \in 7 .. 10 : ~JudgeScored(<<cards[1]>>, 2, f1, f2)

\* a predictions row as create_prediction stored it
SubmittedPrediction(p) ==
    Prediction(p.user_id,
               [fight_id |-> p.fight_id, predicted_winner |-> p.predicted_winner,
                win_method |-> p.win_method, confidence |-> p.confidence])

\* a scorecards row, with its rounds, as create_scorecard stored it
SubmittedScorecard(sc) ==
    Scorecard(sc.user_id,
              [fight_id |-> sc.fight_id,
               round_scores |->
                   [k \in DOMAIN sc.round_scores |->
                       RoundScoreCreate(sc.round_scores[k].round_number,
                                        sc.round_scores[k].fighter1_score,
                                        sc.round_scores[k].fighter2_score)]])

\* the tables with the rows of fight f as they were submitted
NeverResolvedPredictions(f) ==
    [i \in DOMAIN predictions |->
        IF predictions[i].fight_id = f THEN SubmittedPrediction(predictions[i])
        ELSE predictions[i]]

NeverResolvedScorecards(f) ==
    [i \in DOMAIN scorecards |->
        IF scorecards[i].fight_id = f THEN SubmittedScorecard(scorecards[i])
        ELSE scorecards[i]]

\* a table's correctness values: every column but resolved_at
Correctness(table) == [i \in DOMAIN table |-> [table[i] EXCEPT !.resolved_at = NULL]]

\* C4: when update_result has re-resolved, the correctness values of the
\* fight's predictions and scorecards are those create_result with the same
\* payload gives on never-resolved rows; nothing derived from the replaced
\* result survives, also when the new payload has no official scorecards.
C4_UpdateFromScratch ==
    (request.op = "update_result" /\ request.pc = "update_event_status") =>
        LET f == request.fight_id
            fr == ResultOf(f)
        IN  /\ Correctness(predictions)
                 = Correctness(resolve_predictions(NeverResolvedPredictions(f), f, fr, now))
            /\ Correctness(scorecards)
                 = Correctness(resolve_scorecards(NeverResolvedScorecards(f), f,
                                                  fr.official_scorecards, now))

\* C5: a fight without a result has every prediction, scorecard and round
\* score in the state of a row that was never resolved; so deleting the
\* result undoes resolution.
C5_DeleteUnresolves ==
    \A f \in Fights :
        ~HasResult(f) =>
            /\ predictions = NeverResolvedPredictions(f)
            /\ scorecards = NeverResolvedScorecards(f)

\* the event is over, so a result was entered and resolved, and the fight
\* has lost it again while a prediction and a scorecard are stored
C5_Witness ==
    /\ ~HasResult(1)
    /\ ~is_upcoming[event_id(1)]
    /\ PredictionsOf(1) # {}
    /\ ScorecardsOf(1) # {}

\* C6: when resolve_fight_result has run both resolvers, running them again
\* against the same result and official scorecards changes no is_correct,
\* correct_rounds or total_rounds.
C6_Idempotent ==
    ScorecardsResolved =>
        LET f == request.fight_id
            fr == ResultOf(f)
        IN  \A t \in now .. MaxTime :
                /\ Correctness(resolve_predictions(predictions, f, fr, t))
                     = Correctness(predictions)
                /\ Correctness(resolve_scorecards(scorecards, f, fr.official_scorecards, t))
                     = Correctness(scorecards)

\* a re-resolution that has marked a prediction and a round correct
C6_Witness ==
    /\ request.op = "update_result"
    /\ request.pc = "mark_resolved"
    /\ ResultOf(request.fight_id).official_scorecards # << >>
    /\ \E p \in PredictionsOf(request.fight_id) : p.is_correct = Some(TRUE)
    /\ \E sc \in ScorecardsOf(request.fight_id) : sc.correct_rounds > 0

\* C7: a create_result call that a failed commit ends after its first
\* resolver step leaves every prediction and scorecard of the fight as it
\* was when the call began, that is never resolved.
C7_AllOrNothing ==
    [][(/\ request.op = "create_result"
        /\ request.pc \in {"resolve_scorecards", "mark_resolved"}
        /\ request'.pc = "idle")
       => /\ \A i \in DOMAIN predictions' :
                 predictions'[i].fight_id = request.fight_id
                     => predictions'[i].is_correct = NULL
          /\ \A i \in DOMAIN scorecards' :
                 scorecards'[i].fight_id = request.fight_id
                     => scorecards'[i].resolved_at = NULL]_vars

\* C8 (the step): with no official scorecard, resolve_scorecards leaves
\* the scorecards table as it was and returns 0.
ResolveScorecardsWithoutOfficials ==
    (/\ request.pc = "resolve_scorecards"
     /\ ResultOf(request.fight_id).official_scorecards = << >>)
    => /\ scorecards' = scorecards
       /\ request'.pc = "mark_resolved"
       /\ request'.scorecards_resolved = 0

\* C8 (the predictions): once resolve_predictions has run, every
\* prediction of the fight is resolved against winner and method.
PredictionsStillResolved ==
    (/\ PredictionsResolved
     /\ ResultOf(request.fight_id).official_scorecards = << >>)
    => /\ request.predictions_resolved = Cardinality(PredictionsOf(request.fight_id))
       /\ \A p \in PredictionsOf(request.fight_id) :
             /\ p.resolved_at # NULL
             /\ p.is_correct =
                    Some(/\ p.predicted_winner = ResultOf(request.fight_id).winner
                         /\ p.win_method = ResultOf(request.fight_id).method)

\* C8: when resolve runs against a result with zero official scorecards,
\* every prediction of the fight is still resolved against winner and
\* method, every scorecard and round score is left exactly as it was, and
\* the scorecard resolver reports 0.
C8_NoOfficialScorecards ==
    /\ []PredictionsStillResolved
    /\ [][ResolveScorecardsWithoutOfficials]_vars

\* resolve has passed a resolved scorecard by, and resolved a prediction
C8_Witness ==
    /\ request.pc = "mark_resolved"
    /\ ResultOf(request.fight_id).official_scorecards = << >>
    /\ request.scorecards_resolved = 0
    /\ \E sc \in ScorecardsOf(request.fight_id) :
          sc.resolved_at # NULL /\ sc.correct_rounds > 0
    /\ \E p \in PredictionsOf(request.fight_id) : p.is_correct = Some(TRUE)

\* C9 (the state): a result with is_resolved set has no resolver step of
\* its fight pending, and every resolved prediction and, when it has
\* official scorecards, every resolved scorecard of the fight carries the
\* values its current winner, method and official scorecards give.
ResolvedAgainstCurrent ==
    \A i \in DOMAIN fight_results :
        LET fr == fight_results[i]
            by_round == official_scores_by_round(fr.official_scorecards)
        IN  fr.is_resolved =>
                /\ request.fight_id = fr.fight_id
                      => request.pc \in {"update_event_status", "return_result"}
                /\ \A p \in PredictionsOf(fr.fight_id) :
                      p.resolved_at # NULL
                          => p.is_correct = Some(prediction_is_correct(p, fr))
                /\ fr.official_scorecards # << >> =>
                      \A sc \in ScorecardsOf(fr.fight_id) :
                          sc.resolved_at # NULL
                              => sc = resolve_scorecard(sc, by_round, sc.resolved_at[1])

\* C9 (the steps): is_resolved becomes true only in the last step of
\* resolve_fight_result, and the commit of update_result stores it false.
ResolvedOnlyByResolve ==
    \A f \in Fights :
        /\ (/\ HasResult(f)'
            /\ ResultOf(f)'.is_resolved
            /\ ~(HasResult(f) /\ ResultOf(f).is_resolved))
           => (request.pc = "mark_resolved" /\ request.fight_id = f)
        /\ (request.pc = "idle" /\ request'.op = "update_result" /\ request'.fight_id = f)
           => ~ResultOf(f)'.is_resolved

\* C9: is_resolved is true only when both resolvers have completed against
\* the result's current winner, method and official scorecards;
\* update_result stores it false with the new data and it becomes true
\* again only when re-resolution has completed.
C9_IsResolved ==
    /\ []ResolvedAgainstCurrent
    /\ [][ResolvedOnlyByResolve]_vars

\* an updated result that re-resolution has marked resolved again
C9_Witness ==
    /\ request.op = "update_result"
    /\ request.pc = "update_event_status"
    /\ ResultOf(request.fight_id).is_resolved
    /\ \E p \in PredictionsOf(request.fight_id) : p.resolved_at # NULL
    /\ \E sc \in ScorecardsOf(request.fight_id) : sc.resolved_at # NULL

\* the (user, fight) pair has a row in the table
Exists(table, u, f) ==
    \E i \in DOMAIN table : table[i].user_id = u /\ table[i].fight_id = f

\* at most one row per (user, fight) pair
OnePerUserAndFight(table) ==
    \A i, j \in DOMAIN table :
        (table[i].user_id = table[j].user_id /\ table[i].fight_id = table[j].fight_id)
            => i = j

\* the payload passes the checks on its rounds
WellFormed(d) ==
    Len(d.round_scores) = expected_rounds(d.fight_id) /\ round_numbers_ok(d)

\* stored rows keep their content
RowsKept ==
    /\ \A i \in DOMAIN predictions :
          i \in DOMAIN predictions' /\ predictions'[i] = predictions[i]
    /\ \A i \in DOMAIN scorecards :
          i \in DOMAIN scorecards' /\ scorecards'[i] = scorecards[i]

\* C10 (as stated): every request to create a second prediction or scorecard
\* for an existing (user, fight) pair is answered with a conflict.
C10_SecondIsConflict ==
    \A u \in Users, ok \in BOOLEAN :
        /\ \A d \in PredictionCreate :
              Exists(predictions, u, d.fight_id)
                  => create_prediction_status(u, d, ok) = 409
        /\ \A d \in ScorecardCreate :
              Exists(scorecards, u, d.fight_id)
                  => create_scorecard_status(u, d, ok) = 409

\* C10 (the state): at most one prediction and one scorecard per (user,
\* fight) pair; a second prediction is answered 409, a second scorecard 409
\* when its rounds are well formed and 400 when they are not.
SecondRejected ==
    /\ OnePerUserAndFight(predictions)
    /\ OnePerUserAndFight(scorecards)
    /\ \A u \in Users, ok \in BOOLEAN :
          /\ \A d \in PredictionCreate :
                Exists(predictions, u, d.fight_id)
                    => create_prediction_status(u, d, ok) = 409
          /\ \A d \in ScorecardCreate :
                Exists(scorecards, u, d.fight_id)
                    => create_scorecard_status(u, d, ok)
                           = IF WellFormed(d) THEN 409 ELSE 400

\* C10: after any sequence of create_prediction and create_scorecard
\* requests there is at most one prediction and one scorecard per (user,
\* fight) pair; a well-formed request for an existing pair is rejected as
\* a conflict, a scorecard request with malformed rounds as a bad request,
\* and no request changes a stored row.
C10_OnePerUserAndFight ==
    /\ []SecondRejected
    /\ [][RowsKept]_vars

\* both users have a prediction and a scorecard on the fight, so every
\* further request is one for an existing pair
C10_Witness ==
    /\ \A u \in Users : Exists(predictions, u, 1) /\ Exists(scorecards, u, 1)
    /\ \E p \in Rows(predictions) : p.confidence # NULL

\* C11: no step changes what a user submitted: a stored prediction keeps
\* its predicted_winner, win_method and confidence, a stored scorecard its
\* round numbers and scores; only is_correct, resolved_at, correct_rounds
\* and total_rounds are written.
C11_ContentImmutable ==
    [][/\ \A i \in DOMAIN predictions :
             /\ i \in DOMAIN predictions'
             /\ SubmittedPrediction(predictions'[i]) = SubmittedPrediction(predictions[i])
       /\ \A i \in DOMAIN scorecards :
             /\ i \in DOMAIN scorecards'
             /\ SubmittedScorecard(scorecards'[i]) = SubmittedScorecard(scorecards[i])]_vars

\* a result was stored, resolved, deleted and stored again over a
\* prediction with a confidence and a scorecard, both resolved
C11_Witness ==
    /\ HasResult(1)
    /\ ~ResultOf(1).is_resolved
    /\ ~is_upcoming[event_id(1)]
    /\ request.op = "create_result"
    /\ request.pc = "mark_resolved"
    /\ \E p \in PredictionsOf(1) : p.confidence # NULL /\ p.resolved_at # NULL
    /\ \E sc \in ScorecardsOf(1) : sc.resolved_at # NULL

\* C12 (create and update): a result request that is about to return has
\* left the fight a result with the payload's winner, method and official
\* scorecards, and is_resolved set.
ReturnsResolved ==
    request.pc = "return_result" =>
        /\ HasResult(request.fight_id)
        /\ ResultOf(request.fight_id)
             = [FightResult(request.fight_id, request.result_data)
                   EXCEPT !.is_resolved = TRUE]

\* C12 (delete): the step that removes a fight's result leaves each of the
\* fight's predictions and scorecards unresolved.
DeleteUnresolves ==
    \A f \in FightIds :
        (HasResult(f) /\ ~HasResult(f)') =>
            /\ \A i \in DOMAIN predictions' :
                  predictions'[i].fight_id = f
                      => predictions'[i] = SubmittedPrediction(predictions'[i])
            /\ \A i \in DOMAIN scorecards' :
                  scorecards'[i].fight_id = f
                      => scorecards'[i] = SubmittedScorecard(scorecards'[i])

\* C12: when create_result or update_result returns, the fight has a
\* result with the payload's winner, method and official scorecards and
\* is_resolved true; when delete_result returns, the fight has no result
\* and its predictions and scorecards are unresolved.
C12_ReturnsSettled ==
    /\ []ReturnsResolved
    /\ [][DeleteUnresolves]_vars

\* an update that changed the method is about to return, over a resolved
\* prediction and a resolved scorecard
C12_Witness ==
    /\ request.op = "update_result"
    /\ request.pc = "return_result"
    /\ request.result_data.method = "ko_tko"
    /\ \E p \in PredictionsOf(request.fight_id) : p.is_correct = Some(TRUE)
    /\ \E sc \in ScorecardsOf(request.fight_id) : sc.resolved_at # NULL

\* C13 (the state): a fight has at most one result, and create_result on a
\* fight that has one is answered 400.
OneResultPerFight ==
    \A f \in FightIds :
        /\ Cardinality(fight_result(f)) <= 1
        /\ HasResult(f) =>
              \A ok \in BOOLEAN : create_fight_result_status(f, ok) = 400

\* C13 (the steps): a create_result request gets past its checks only on a
\* fight without a result; a step on a fight that keeps its result, taken
\* while no resolution is in progress, changes nothing of the result and
\* no resolution field.
SecondResultRejected ==
    /\ (request.pc = "idle" /\ request'.op = "create_result")
           => ~HasResult(request'.fight_id)
    /\ (request.pc = "idle" /\ request'.pc = "idle"
          /\ \A f \in FightIds : HasResult(f) => HasResult(f)')
           => /\ fight_results' = fight_results
              /\ \A i \in DOMAIN predictions : predictions'[i] = predictions[i]
              /\ \A i \in DOMAIN scorecards : scorecards'[i] = scorecards[i]

\* C13: a fight has at most one result in every reachable state;
\* create_result on a fight that has one is rejected with an error and
\* leaves the result, its official scorecards and every resolution field
\* as they were.
C13_OneResultPerFight ==
    /\ []OneResultPerFight
    /\ [][SecondResultRejected]_vars

\* a resolved result with official scorecards, and no request in
\* progress: create_result is turned away
C13_Witness ==
    /\ request = Idle
    /\ HasResult(1)
    /\ ResultOf(1).is_resolved
    /\ ResultOf(1).official_scorecards # << >>
    /\ create_fight_result_status(1, TRUE) = 400
    /\ \E sc \in ScorecardsOf(1) : sc.correct_rounds > 0

\* the rounds of a scorecard marked correct
CorrectRounds(sc) ==
    {k \in DOMAIN sc.round_scores : sc.round_scores[k].is_correct = Some(TRUE)}

\* C14: each scorecard's correct_rounds is the number of its round scores
\* whose is_correct is true, and lies between 0 and total_rounds; when
\* resolve_scorecards has run against at least one official scorecard,
\* total_rounds is the number of round scores of each scorecard of the
\* fight.
C14_CorrectRounds ==
    /\ \A sc \in Rows(scorecards) :
          /\ sc.correct_rounds = Cardinality(CorrectRounds(sc))
          /\ 0 <= sc.correct_rounds
          /\ sc.correct_rounds <= sc.total_rounds
    /\ (ScorecardsResolved /\ ResultOf(request.fight_id).official_scorecards # << >>)
          => \A sc \in ScorecardsOf(request.fight_id) :
                sc.total_rounds = Len(sc.round_scores)

\* two resolved scorecards of a fight, one with some of its rounds
\* correct and one with none
C14_Witness ==
    /\ ScorecardsResolved
    /\ ResultOf(request.fight_id).official_scorecards # << >>
    /\ \E sc \in ScorecardsOf(request.fight_id) :
          0 < sc.correct_rounds /\ sc.correct_rounds < sc.total_rounds
    /\ \E sc \in ScorecardsOf(request.fight_id) :
          sc.correct_rounds = 0 /\ sc.total_rounds = 2

\* a prediction is unresolved, or resolved
TwoStatePrediction(p) ==
    \/ p.is_correct = NULL /\ p.resolved_at = NULL
    \/ p.is_correct # NULL /\ p.resolved_at # NULL

\* a scorecard is unresolved with its counts at 0 and no round marked,
\* or resolved with every round marked
TwoStateScorecard(sc) ==
    \/ /\ sc.resolved_at = NULL
       /\ sc.correct_rounds = 0
       /\ sc.total_rounds = 0
       /\ \A k \in DOMAIN sc.round_scores : sc.round_scores[k].is_correct = NULL
    \/ /\ sc.resolved_at # NULL
       /\ \A k \in DOMAIN sc.round_scores : sc.round_scores[k].is_correct # NULL

\* C15: every prediction has is_correct and resolved_at both null or both
\* set; every scorecard has resolved_at null with correct_rounds and
\* total_rounds 0 and no round marked, or resolved_at set with every round
\* marked; and once resolve_predictions has run every prediction of the
\* fight has resolved_at set, correct or not.
C15_TwoState ==
    /\ \A p \in Rows(predictions) : TwoStatePrediction(p)
    /\ \A sc \in Rows(scorecards) : TwoStateScorecard(sc)
    /\ PredictionsResolved =>
          \A p \in PredictionsOf(request.fight_id) : p.resolved_at # NULL
    /\ (ScorecardsResolved /\ ResultOf(request.fight_id).official_scorecards # << >>) =>
          \A sc \in ScorecardsOf(request.fight_id) : sc.resolved_at # NULL

\* an incorrect prediction and a scorecard with no round correct, both
\* resolved
C15_Witness ==
    /\ request.pc = "mark_resolved"
    /\ \E p \in PredictionsOf(request.fight_id) :
          p.is_correct = Some(FALSE) /\ p.resolved_at # NULL
    /\ \E sc \in ScorecardsOf(request.fight_id) :
          sc.resolved_at # NULL /\ sc.correct_rounds = 0

\* resolve_fight_result has returned to the handler
ResolveReturned == request.pc \in {"update_event_status", "return_result"}

\* C16: when resolve_fight_result has returned, predictions_resolved is
\* the number of predictions stored for the fight, scorecards_resolved the
\* number of its scorecards when the result has an official scorecard and
\* 0 when it has none, and the result is marked resolved, also when the
\* fight has no prediction and no scorecard.
C16_Counts ==
    ResolveReturned =>
        LET f == request.fight_id
        IN  /\ request.predictions_resolved = Cardinality(PredictionsOf(f))
            /\ request.scorecards_resolved =
                   IF ResultOf(f).official_scorecards = << >> THEN 0
                   ELSE Cardinality(ScorecardsOf(f))
            /\ ResultOf(f).is_resolved

\* resolve_fight_result has returned 1 and 1
C16_Witness ==
    /\ request.pc = "update_event_status"
    /\ request.predictions_resolved = 1
    /\ request.scorecards_resolved = 1

\* resolve_fight_result has returned 0 and 0 on a fight with no prediction
\* and no scorecard, and the result is marked resolved
C16_WitnessZero ==
    /\ request.pc = "update_event_status"
    /\ request.predictions_resolved = 0
    /\ request.scorecards_resolved = 0
    /\ PredictionsOf(request.fight_id) = {}
    /\ ScorecardsOf(request.fight_id) = {}
    /\ ResultOf(request.fight_id).is_resolved

\* no fight of event e is without a result
NoFightPending(e) == ~\E f \in DOMAIN fights : fights[f].event_id = e /\ ~HasResult(f)

\* C17 (the state): a result request that is about to return has left the
\* event not upcoming when each of its fights has a result.
OverWhenAllHaveResults ==
    request.pc = "return_result" =>
        LET e == event_id(request.fight_id)
        IN  NoFightPending(e) => ~is_upcoming[e]

\* C17 (the step): update_event_status leaves is_upcoming as it was when a
\* fight of the event has no result.
UpcomingWhilePending ==
    (/\ request.pc = "update_event_status"
     /\ ~NoFightPending(event_id(request.fight_id)))
    => is_upcoming' = is_upcoming

\* C17: after a create_result or update_result that succeeds, the event of
\* the fight is not upcoming if each of its fights has a result, and its
\* is_upcoming is as it was if one of them has none.
C17_EventStatus ==
    /\ []OverWhenAllHaveResults
    /\ [][UpcomingWhilePending]_vars

\* the second fight of the event got its result: the event is over
C17_Witness ==
    /\ request.op = "create_result"
    /\ request.pc = "return_result"
    /\ request.fight_id = 2
    /\ HasResult(1)
    /\ ~is_upcoming[event_id(2)]

\* the first fight of the event got its result: the event is still upcoming
C17_WitnessPending ==
    /\ request.pc = "return_result"
    /\ request.fight_id = 1
    /\ ~HasResult(2)
    /\ is_upcoming[event_id(1)]

\* the rounds a scorecard of fight f must score: those the fight is
\* scheduled for, three when that is unset
RoundsToScore(f) == IF fights[f].rounds = NULL THEN 3 ELSE fights[f].rounds[1]

\* one score for each round of the fight and no other
ExactRounds(f, round_scores) ==
    /\ Len(round_scores) = RoundsToScore(f)
    /\ \A r \in 1 .. RoundsToScore(f) :
          Cardinality({k \in DOMAIN round_scores : round_scores[k].round_number = r}) = 1

C18_WitnessSet ==
    /\ fights[1].rounds = Some(2)
    /\ \E sc \in Rows(scorecards) : Len(sc.round_scores) = 2

\* the points of fighter who over the first k rounds of a list
RECURSIVE Points(_, _, _)
Points(round_scores, k, who) ==
    IF k = 0 THEN 0
    ELSE Points(round_scores, k - 1, who)
           + (IF who = 1 THEN round_scores[k].fighter1_score
                         ELSE round_scores[k].fighter2_score)

\* C19 (the state): a scorecard's totals are the sums of its round scores,
\* its winner the fighter with the greater total or draw, and all three
\* are those of the scorecard as it was submitted.
TotalsFromRounds ==
    \A sc \in Rows(scorecards) :
        LET p1 == Points(sc.round_scores, Len(sc.round_scores), 1)
            p2 == Points(sc.round_scores, Len(sc.round_scores), 2)
        IN  /\ total_fighter1(sc) = p1
            /\ total_fighter2(sc) = p2
            /\ p1 > p2 => winner(sc) = "fighter1"
            /\ p2 > p1 => winner(sc) = "fighter2"
            /\ p1 = p2 => winner(sc) = "draw"
            /\ total_fighter1(sc) = total_fighter1(SubmittedScorecard(sc))
            /\ total_fighter2(sc) = total_fighter2(SubmittedScorecard(sc))
            /\ winner(sc) = winner(SubmittedScorecard(sc))

\* C19 (the steps): no step changes the totals or the winner of a stored
\* scorecard.
TotalsKept ==
    \A i \in DOMAIN scorecards :
        /\ i \in DOMAIN scorecards'
        /\ total_fighter1(scorecards'[i]) = total_fighter1(scorecards[i])
        /\ total_fighter2(scorecards'[i]) = total_fighter2(scorecards[i])
        /\ winner(scorecards'[i]) = winner(scorecards[i])

\* C19: in every state, before and after each resolve and unresolve, a
\* scorecard's total_fighter1 and total_fighter2 are the sums of its round
\* scores and its winner is fighter1, fighter2 or draw by comparing them;
\* none of them depends on a resolution field.
C19_Totals ==
    /\ []TotalsFromRounds
    /\ [][TotalsKept]_vars

\* resolved scorecards, one that fighter2 wins with a round marked
\* correct and a round marked incorrect, and one that is level or won by
\* fighter1
C19_Witness ==
    /\ \E sc \in Rows(scorecards) :
          /\ sc.resolved_at # NULL
          /\ winner(sc) = "fighter2"
          /\ sc.correct_rounds = 1
    /\ \E sc \in Rows(scorecards) :
          sc.resolved_at # NULL /\ winner(sc) = "fighter1"

\* the result was deleted over a level scorecard and one fighter1 wins
C19_WitnessUnresolved ==
    /\ ~HasResult(1)
    /\ ~is_upcoming[1]
    /\ \E sc \in Rows(scorecards) : winner(sc) = "draw"
    /\ \E sc \in Rows(scorecards) : winner(sc) = "fighter1"

\* C20: the prediction and scorecard statistics of a fight are those of
\* its predictions and scorecards as they were submitted; so they are the
\* same in two states that agree on what was submitted for the fight and
\* differ in is_correct, resolved_at, correct_rounds, total_rounds or in
\* whether the fight has a result.
C20_StatsIndependent ==
    \A f \in Fights :
        /\ get_fight_prediction_stats(predictions, f)
             = get_fight_prediction_stats(NeverResolvedPredictions(f), f)
        /\ get_fight_scorecard_stats(scorecards, f)
             = get_fight_scorecard_stats(NeverResolvedScorecards(f), f)

\* statistics over a prediction resolved as incorrect and a scorecard
\* with both rounds correct, under a resolved result
C20_Witness ==
    /\ request = Idle
    /\ HasResult(1)
    /\ ResultOf(1).is_resolved
    /\ get_fight_prediction_stats(predictions, 1).total_predictions = 1
    /\ get_fight_scorecard_stats(scorecards, 1).total_scorecards = 1
    /\ \E p \in PredictionsOf(1) : p.is_correct = Some(FALSE)
    /\ \E sc \in ScorecardsOf(1) : sc.correct_rounds = 2

\* fight g is not the fight of the step: no result request for it is in
\* progress, begins or deletes its result
NotTheFight(g) ==
    /\ request.fight_id # g
    /\ request'.fight_id # g
    /\ ~(HasResult(g) /\ ~HasResult(g)')

\* C21: a step of create_result, update_result or delete_result for a
\* fight leaves every prediction and scorecard, with its round scores, of
\* each other fight as it was, and each other fight's result too.
C21_OtherFightsKept ==
    [][\A g \in FightIds :
          NotTheFight(g) =>
              /\ \A i \in DOMAIN predictions :
                    predictions[i].fight_id = g => predictions'[i] = predictions[i]
              /\ \A i \in DOMAIN scorecards :
                    scorecards[i].fight_id = g => scorecards'[i] = scorecards[i]
              /\ HasResult(g)' = HasResult(g)
              /\ HasResult(g) => ResultOf(g)' = ResultOf(g)]_vars

\* fight 1 is resolved while fight 2, with a prediction and a scorecard,
\* has a resolved result of its own with another method
C21_Witness ==
    /\ request.fight_id = 1
    /\ request.pc = "mark_resolved"
    /\ HasResult(2)
    /\ ResultOf(2).is_resolved
    /\ ResultOf(2).method # ResultOf(1).method
    /\ \E p \in PredictionsOf(1) : p.resolved_at # NULL
    /\ \E p \in PredictionsOf(2) : p.resolved_at # NULL /\ p.is_correct # Some(FALSE)
    /\ \E sc \in ScorecardsOf(1) : sc.resolved_at # NULL
    /\ \E sc \in ScorecardsOf(2) : TRUE

\* C22: once update_result has stored its payload, the result's official
\* scorecards are those of the payload and no other; and once it has
\* re-resolved the scorecards against at least one official scorecard, a
\* user's round is correct exactly when a judge of the payload scored it
\* so, whatever the replaced judges had scored.
C22_NewJudgesOnly ==
    request.op = "update_result" =>
        LET f == request.fight_id
            cards == request.result_data.official_scorecards
        IN  /\ ResultOf(f).official_scorecards = cards
            /\ (ScorecardsResolved /\ cards # << >>) =>
                  \A sc \in ScorecardsOf(f) : \A k \in DOMAIN sc.round_scores :
                      sc.round_scores[k].is_correct =
                          Some(JudgeScored(cards, sc.round_scores[k].round_number,
                                           sc.round_scores[k].fighter1_score,
                                           sc.round_scores[k].fighter2_score))

\* update_result has replaced the judges and is about to re-resolve a
\* scorecard with a round that only a replaced judge had matched
C22_Witness ==
    /\ request.op = "update_result"
    /\ request.pc = "resolve_scorecards"
    /\ request.result_data.official_scorecards # << >>
    /\ \E sc \in ScorecardsOf(request.fight_id) : \E k \in DOMAIN sc.round_scores :
          /\ sc.round_scores[k].is_correct = Some(TRUE)
          /\ ~JudgeScored(request.result_data.official_scorecards,
                          sc.round_scores[k].round_number,
                          sc.round_scores[k].fighter1_score,
                          sc.round_scores[k].fighter2_score)

\* the re-resolution has marked false a round of a resolved scorecard
C22_WitnessAfter ==
    /\ request.op = "update_result"
    /\ request.pc = "mark_resolved"
    /\ request.result_data.official_scorecards # << >>
    /\ \E sc \in ScorecardsOf(request.fight_id) : sc.correct_rounds = 0

\* what update_result with payload first and then update_result with
\* payload last leave of fight f, run one after the other: the result of
\* last, the predictions resolved against it, the scorecards resolved
\* against the last official scorecards that either of them stored
SerialOutcome(f, first, last) ==
    LET fr == [FightResult(f, last) EXCEPT !.is_resolved = TRUE]
        cards == IF last.official_scorecards # << >>
                 THEN last.official_scorecards ELSE first.official_scorecards
    IN  /\ ResultOf(f) = fr
        /\ Correctness(predictions)
             = Correctness(resolve_predictions(NeverResolvedPredictions(f), f, fr, now))
        /\ cards # << >> =>
               Correctness(scorecards)
                 = Correctness(resolve_scorecards(NeverResolvedScorecards(f), f, cards, now))

\* two update_result requests for one fight have both run to their answer
BothUpdated ==
    /\ request.op = "update_result"
    /\ other_request.op = "update_result"
    /\ request.pc = "return_result"
    /\ other_request.pc = "return_result"
    /\ request.fight_id = other_request.fight_id

\* C23: when two update_result requests for one fight, interleaved at their
\* commits, have both run to their answer, the stored result, the
\* predictions and the scorecards of the fight are those one of the two
\* serial orders of the requests leaves.
C23_SerialOrder ==
    BothUpdated =>
        \/ SerialOutcome(request.fight_id, request.result_data, other_request.result_data)
        \/ SerialOutcome(request.fight_id, other_request.result_data, request.result_data)

\* the rows of table predictions for user u and fight f
Stored(u, f) ==
    {i \in DOMAIN predictions :
        predictions[i].user_id = u /\ predictions[i].fight_id = f}

\* the request in progress is a create_prediction that passed both
\* existence checks, and a row of its user and fight is stored by now
SecondInsert ==
    /\ request.pc = "flush"
    /\ Stored(request.user_id, request.fight_id) # {}

\* C24: when the steps of two create_prediction requests interleave, the
\* predictions table never holds two rows of one user and fight; the
\* INSERT of a request that passed both existence checks while a row of its
\* user and fight is stored by now is rejected by the unique constraint, and
\* the table stays as it was.
C24_SecondInsertRejected ==
    /\ [](\A u \in Users, f \in FightIds : Cardinality(Stored(u, f)) <= 1)
    /\ [][(SecondInsert /\ other_request' = other_request)
            => /\ predictions' = predictions
               /\ request'.status = 500
               /\ request'.raised = "IntegrityError"]_vars

\* both requests of one user on one fight have run to their answer: the
\* first was created, the second, with another pick, was stopped by the
\* constraint, and the stored row is the first request's
C24_Witness ==
    /\ request.pc = "return_prediction"
    /\ other_request.pc = "return_prediction"
    /\ request.raised = "IntegrityError"
    /\ other_request.status = 201
    /\ request.user_id = other_request.user_id
    /\ request.fight_id = other_request.fight_id
    /\ request.prediction_data # other_request.prediction_data
    /\ \A i \in Stored(request.user_id, request.fight_id) :
           predictions[i] = Prediction(other_request.user_id, other_request.prediction_data)

\* C25: whatever requests have run, every prediction stored for a fight
\* whose result has is_resolved = true has is_correct and resolved_at set,
\* also a prediction submitted after the result was entered.
C25_NoneLeftUnresolved ==
    \A f \in Fights :
        (HasResult(f) /\ ResultOf(f).is_resolved) =>
            \A p \in PredictionsOf(f) :
                p.is_correct # NULL /\ p.resolved_at # NULL

\* the (round, fighter1, fighter2) triples the judges' cards hold
PairsOf(cards) ==
    UNION {{<<cards[j][m].round_number, cards[j][m].fighter1_score,
              cards[j][m].fighter2_score>> : m \in DOMAIN cards[j]} :
           j \in DOMAIN cards}

\* C26: once resolve_scorecards has run with official scorecards, every
\* list of those cards that holds the same (fighter1, fighter2) pairs in
\* each round - the cards in another order, or with a judge's card twice -
\* resolves the fight's scorecards as submitted to the same
\* is_correct, correct_rounds and total_rounds.
C26_PairsOnly ==
    ScorecardsResolved =>
        LET f == request.fight_id
            cards == ResultOf(f).official_scorecards
        IN  cards # << >> =>
                \A other \in SeqsUpTo(Rows(cards), Len(cards) + 1) :
                    PairsOf(other) = PairsOf(cards) =>
                        Correctness(resolve_scorecards(NeverResolvedScorecards(f), f,
                                                       other, now))
                          = Correctness(scorecards)

\* two judges scored round 1 differently, and a stored scorecard has the
\* pair of the second judge only
C26_Witness ==
    /\ request.pc = "mark_resolved"
    /\ LET cards == ResultOf(request.fight_id).official_scorecards
       IN  /\ Len(cards) = 2
           /\ \E sc \in ScorecardsOf(request.fight_id) :
                  \E k \in DOMAIN sc.round_scores :
                      /\ sc.round_scores[k].is_correct = Some(TRUE)
                      /\ ~JudgeScored(<<cards[1]>>, sc.round_scores[k].round_number,
                                      sc.round_scores[k].fighter1_score,
                                      sc.round_scores[k].fighter2_score)
                      /\ \E m \in DOMAIN cards[1] :
                             cards[1][m].round_number = sc.round_scores[k].round_number

\* a step in which fight f loses its result leaves every prediction,
\* scorecard and round score of f unresolved, and a step after which f still
\* has its result unresolves none of them
DeleteIsOneCommit(f) ==
    /\ (HasResult(f) /\ ~HasResult(f)') =>
           /\ \A i \in DOMAIN predictions' :
                  predictions'[i].fight_id = f =>
                      /\ predictions'[i].is_correct = NULL
                      /\ predictions'[i].resolved_at = NULL
           /\ \A i \in DOMAIN scorecards' :
                  scorecards'[i].fight_id = f =>
                      /\ scorecards'[i].resolved_at = NULL
                      /\ scorecards'[i].correct_rounds = 0
                      /\ scorecards'[i].total_rounds = 0
                      /\ \A k \in DOMAIN scorecards'[i].round_scores :
                             scorecards'[i].round_scores[k].is_correct = NULL
    /\ (HasResult(f) /\ HasResult(f)') =>
           /\ \A i \in DOMAIN predictions :
                  (predictions[i].fight_id = f /\ predictions[i].resolved_at # NULL)
                      => predictions'[i].resolved_at # NULL
           /\ \A i \in DOMAIN scorecards :
                  (scorecards[i].fight_id = f /\ scorecards[i].resolved_at # NULL)
                      => scorecards'[i].resolved_at # NULL

\* C27: delete_result unresolves the fight's rows and removes the result in
\* one commit: no step removes a result and leaves a row of its fight
\* resolved, and no step unresolves a row of a fight whose result remains;
\* a delete whose commit failed changes nothing.
C27_DeleteIsOneCommit == [][\A f \in Fights : DeleteIsOneCommit(f)]_vars

\* the result of fight 1 was resolved, the event being over, and was then
\* deleted: no result is stored and the prediction and the scorecard of the
\* fight are unresolved
C27_Witness ==
    /\ request = Idle
    /\ fight_results = << >>
    /\ ~is_upcoming[event_id(1)]
    /\ \E p \in PredictionsOf(1) : p.is_correct = NULL /\ p.confidence # NULL
    /\ \E sc \in ScorecardsOf(1) : sc.total_rounds = 0 /\ sc.resolved_at = NULL

\* C28 (the state): on a fight id that names no fight, create_result,
\* update_result and delete_result are answered 404; on a fight without a
\* result, update_result and delete_result are answered 404.
NotFound ==
    \A f \in FightIds, ok \in BOOLEAN :
        /\ f \notin Fights =>
              /\ create_fight_result_status(f, ok) = 404
              /\ update_fight_result_status(f, ok) = 404
              /\ delete_fight_result_status(f, ok) = 404
        /\ (f \in Fights /\ ~HasResult(f)) =>
              /\ update_fight_result_status(f, ok) = 404
              /\ delete_fight_result_status(f, ok) = 404

\* C28 (the steps): no request gets past its checks on a fight id that
\* names no fight, and no update_result on a fight without a result; a step
\* that starts no request leaves a fight without a result without one and
\* its predictions and scorecards as they were.
NotFoundChangesNothing ==
    \A f \in FightIds :
        (f \notin Fights \/ ~HasResult(f)) =>
            /\ request.pc = "idle" =>
                  ~(request'.fight_id = f /\ request'.op \in {"update_result", "delete_result"})
            /\ (request.pc = "idle" /\ f \notin Fights) => request'.fight_id # f
            /\ (request.pc = "idle" /\ request'.pc = "idle") =>
                  /\ ~HasResult(f)'
                  /\ \A i \in DOMAIN predictions :
                         predictions[i].fight_id = f => predictions'[i] = predictions[i]
                  /\ \A i \in DOMAIN scorecards :
                         scorecards[i].fight_id = f => scorecards'[i] = scorecards[i]

\* C28: update_result and delete_result on a fight without a result, and
\* every result request on a fight id that names no fight, are answered
\* not found and change nothing.
C28_NotFound ==
    /\ []NotFound
    /\ [][NotFoundChangesNothing]_vars

\* fight 1 has lost its result and keeps a prediction and a scorecard, and
\* no request is in progress: update_result and delete_result on it are
\* turned away, as is every result request on fight id 2
C28_Witness ==
    /\ request = Idle
    /\ ~HasResult(1)
    /\ ~is_upcoming[event_id(1)]
    /\ PredictionsOf(1) # {}
    /\ ScorecardsOf(1) # {}
    /\ 2 \notin Fights
    /\ update_fight_result_status(1, TRUE) = 404
    /\ create_fight_result_status(2, TRUE) = 404

\* the fights of event e
FightsOf(e) == {f \in DOMAIN fights : fights[f].event_id = e}

\* C29 (the steps): no step makes an event upcoming again; an event without
\* fights keeps its is_upcoming; an event stops being upcoming only when it
\* has fights and each has a result; the step in which a fight loses its
\* result changes no is_upcoming.
OnlyCloses ==
    /\ \A e \in Events :
          /\ is_upcoming'[e] => is_upcoming[e]
          /\ FightsOf(e) = {} => is_upcoming'[e] = is_upcoming[e]
          /\ (is_upcoming[e] /\ ~is_upcoming'[e]) =>
                 \A f \in FightsOf(e) : HasResult(f)
    /\ (\E f \in Fights : HasResult(f) /\ ~HasResult(f)')
           => is_upcoming' = is_upcoming

\* C29: entering results only moves is_upcoming from true to false:
\* update_event_status never sets it to true and leaves an event without
\* fights untouched, and delete_result never changes it.
C29_OnlyCloses == [][OnlyCloses]_vars

\* event 1 was closed by the results of its fights and one of them has
\* lost its result again; event 2, without fights, is still upcoming
C29_Witness ==
    /\ request = Idle
    /\ ~is_upcoming[1]
    /\ ~HasResult(1)
    /\ HasResult(2)
    /\ FightsOf(2) = {}
    /\ is_upcoming[2]

\* C30 (the state), of the last call of the session store:
\* verify_admin_session answered true only for a stored token whose expiry
\* had not passed; after it answered false the token is not stored, so an
\* expired token was removed; after invalidate_admin_session the token is
\* not stored.
SessionChecked ==
    /\ (session.op = "verify_admin_session" /\ session.valid) =>
           /\ session.token # NULL
           /\ _active_sessions[session.token[1]] # NULL
           /\ session.at <= _active_sessions[session.token[1]][1]
    /\ (/\ session.op \in {"verify_admin_session", "invalidate_admin_session"}
        /\ ~session.valid
        /\ session.token # NULL)
           => _active_sessions[session.token[1]] = NULL

\* C30 (the steps): a token is stored, or its expiry moved, only by the
\* create_admin_session that issues it, which sets the expiry
\* SESSION_EXPIRY_HOURS ahead; a stored token is removed only by its own
\* logout or, once expired, by its own check or the cleanup of a login: a
\* logout with another token, an unknown one or none changes no session.
SessionStoreSteps ==
    \A t \in Tokens :
        /\ (_active_sessions'[t] # NULL /\ _active_sessions'[t] # _active_sessions[t]) =>
               /\ session'.op = "create_admin_session"
               /\ session'.token = Some(t)
               /\ _active_sessions'[t] = Some(now + SESSION_EXPIRY_HOURS)
        /\ (_active_sessions[t] # NULL /\ _active_sessions'[t] = NULL) =>
               \/ /\ session'.op = "invalidate_admin_session"
                  /\ session'.token = Some(t)
               \/ /\ now > _active_sessions[t][1]
                  /\ \/ session'.op = "create_admin_session"
                     \/ /\ session'.op = "verify_admin_session"
                        /\ session'.token = Some(t)

\* C30: verify_admin_session accepts a token only if create_admin_session
\* issued it, no logout has invalidated it since and it has not expired; a
\* token never issued is rejected; an expired token is removed from the
\* store when it is checked; a logout with an unknown or absent token
\* succeeds and leaves the other sessions as they were.
C30_Sessions ==
    /\ []SessionChecked
    /\ [][SessionStoreSteps]_vars

\* a token was checked in the very hour of its expiry and accepted, while
\* the other token is not stored
C30_Witness ==
    /\ session.op = "verify_admin_session"
    /\ session.valid
    /\ session.at = _active_sessions[session.token[1]][1]
    /\ \E t \in Tokens : _active_sessions[t] = NULL

\* a token was checked after its expiry, rejected and removed, while the
\* session of the other token is still stored
C30_WitnessExpired ==
    /\ session.op = "verify_admin_session"
    /\ ~session.valid
    /\ session.token = Some("t1")
    /\ session.at > 1 + SESSION_EXPIRY_HOURS
    /\ _active_sessions["t1"] = NULL
    /\ _active_sessions["t2"] # NULL

====
